---- MODULE Spec2Model ----
(***************************************************************************)
(* Model of the AniDB catalog clients of AnimeWatcherQT:                   *)
(*   - AniDBClient       (src/AniDBClient.py, blocking UDP socket)         *)
(*   - AsyncAniDBClient  (src/async_client.py, aiohttp session)            *)
(* A reply of the service is a record: its first line split on ' ' and the *)
(* lines after the first one, each split on '|'.  A transport error (the   *)
(* socket call raising OSError) is the reply with err = TRUE.              *)
(***************************************************************************)
EXTENDS Integers, Sequences, FiniteSets, TLC

\* Bound on the ANIME commands one query_anidb call may send in the model.
MaxQ == 3

\* Bound on the time measured since the last command: MaxElapsed stands for
\* "MaxElapsed time units or more".
MaxElapsed == 2

----------------------------------------------------------------------------
\* Replies of the service

Reply(l1, body) == [err |-> FALSE, line1 |-> l1, body |-> body]

TransportError == [err |-> TRUE, line1 |-> <<>>, body |-> <<>>]

\* a payload line with 15 '|'-separated positions
Full15 ==
  <<"5", "2021", "TV", "ignored", "Title EN", "Title JP", "Title", "Syn",
    "24", "24", "0", "t1,t2", "ignored2", "1,2", "0.5,0.8">>

\* the payload line of the documented scenario: 14 positions
Short14 ==
  <<"5", "2021", "TV", "ignored", "Title EN", "Title JP", "Syn",
    "24", "24", "0", "t1,t2", "ignored2", "1,2", "0.5,0.8">>

\* the first 14 positions of a 15-position payload line
Trunc14 ==
  <<"5", "2021", "TV", "ignored", "Title EN", "Title JP", "Title", "Syn",
    "24", "24", "0", "t1,t2", "ignored2", "1,2">>

\* 15 positions, position 8 is not an integer
NonNum15 ==
  <<"5", "2021", "TV", "ignored", "Title EN", "Title JP", "Title", "Syn",
    "n/a", "24", "0", "t1,t2", "ignored2", "1,2", "0.5,0.8">>

AuthReplies ==
  { Reply(<<"200", "abc123", "LOGIN", "ACCEPTED">>, <<>>),
    Reply(<<"201", "def456", "LOGIN", "ACCEPTED">>, <<>>),
    Reply(<<"200">>, <<>>),
    Reply(<<"500", "LOGIN", "FAILED">>, <<>>),
    Reply(<<"501", "LOGIN", "FIRST">>, <<>>),
    Reply(<<"502", "ACCESS", "DENIED">>, <<>>),
    Reply(<<"503", "CLIENT", "VERSION", "OUTDATED">>, <<>>),
    Reply(<<"504", "CLIENT", "BANNED">>, <<>>),
    Reply(<<"506", "INVALID", "SESSION">>, <<>>),
    TransportError }

QueryReplies ==
  { Reply(<<"230", "ANIME">>, <<Full15>>),
    Reply(<<"230", "ANIME">>, <<Short14>>),
    Reply(<<"230", "ANIME">>, <<Trunc14>>),
    Reply(<<"230", "ANIME">>, <<NonNum15>>),
    Reply(<<"230", "ANIME">>, <<>>),
    Reply(<<"330", "NO", "SUCH", "ANIME">>, <<>>),
    Reply(<<"501", "LOGIN", "FIRST">>, <<>>),
    Reply(<<"506", "INVALID", "SESSION">>, <<>>),
    Reply(<<"598", "UNKNOWN", "COMMAND">>, <<>>),
    TransportError }

\* LOGOUT is sent with tag=byebye, the service prefixes its reply with the tag
LogoutReplies ==
  { Reply(<<"byebye", "203", "LOGGED", "OUT">>, <<>>),
    Reply(<<"403", "NOT", "LOGGED", "IN">>, <<>>),
    TransportError }

\* response_str.startswith(code), for replies whose first token is a code
StartsWith(r, code) == Len(r.line1) >= 1 /\ r.line1[1] = code

\* response_str.split(' ')[0]
StatusCode(r) == r.line1[1]

----------------------------------------------------------------------------
\* Results of a call

NoInfo == [aid |-> 0, year |-> "", type |-> "", romaji |-> "", kanji |-> "",
           english |-> "", synonyms |-> "", episodes |-> 0, ep_count |-> 0,
           special_count |-> 0, tag_name_list |-> "", tag_id_list |-> "",
           tag_weigth_list |-> ""]

NoCall   == [kind |-> "none",    exc |-> "", val |-> NoInfo]
Pending  == [kind |-> "pending", exc |-> "", val |-> NoInfo]
Return(v) == [kind |-> "return", exc |-> "", val |-> v]
ReturnNone == [kind |-> "None",  exc |-> "", val |-> NoInfo]
Raise(e) == [kind |-> "raise",   exc |-> e,  val |-> NoInfo]
Exited   == [kind |-> "exit",    exc |-> "SystemExit", val |-> NoInfo]

----------------------------------------------------------------------------
\* Decoding of the payload line

\* int(s): the strings of the model that parse as integers
IntStrings == {"0", "5", "24"}

ParseInt(s) == CASE s = "0" -> 0 [] s = "5" -> 5 [] s = "24" -> 24 [] OTHER -> 0

\* parts[i], with the zero-based index of the source
P(parts, i) == parts[i + 1]

Rd(i, isInt) == [pos |-> i, int |-> isInt]

\* the positions process_response reads, in the order the dict literal
\* evaluates them
SyncReads ==
  << Rd(0, TRUE), Rd(1, FALSE), Rd(2, FALSE), Rd(4, FALSE), Rd(5, FALSE),
     Rd(7, FALSE), Rd(8, TRUE), Rd(9, TRUE), Rd(10, TRUE), Rd(11, FALSE),
     Rd(13, FALSE), Rd(14, FALSE) >>

\* the exception the first failing read raises, "none" when all succeed
RECURSIVE FirstError(_, _)
FirstError(parts, reads) ==
  IF reads = <<>> THEN "none"
  ELSE LET rd == Head(reads) IN
       IF rd.pos >= Len(parts) THEN "IndexError"
       ELSE IF rd.int /\ P(parts, rd.pos) \notin IntStrings THEN "ValueError"
       ELSE FirstError(parts, Tail(reads))

\* the dict literal with 'synonyms' taken one position early
anime_info_synonyms6(parts) ==
  [aid |-> ParseInt(P(parts, 0)),
   year |-> P(parts, 1),
   type |-> P(parts, 2),
   romaji |-> P(parts, 4),
   kanji |-> P(parts, 5),
   english |-> "",
   synonyms |-> P(parts, 6),
   episodes |-> ParseInt(P(parts, 8)),
   ep_count |-> ParseInt(P(parts, 9)),
   special_count |-> ParseInt(P(parts, 10)),
   tag_name_list |-> P(parts, 11),
   tag_id_list |-> P(parts, 13),
   tag_weigth_list |-> P(parts, 14)]

\* the dict literal of process_response
anime_info(parts) ==
  [aid |-> ParseInt(P(parts, 0)),
   year |-> P(parts, 1),
   type |-> P(parts, 2),
   romaji |-> P(parts, 4),
   kanji |-> P(parts, 5),
   english |-> "",
   synonyms |-> P(parts, 7),
   episodes |-> ParseInt(P(parts, 8)),
   ep_count |-> ParseInt(P(parts, 9)),
   special_count |-> ParseInt(P(parts, 10)),
   tag_name_list |-> P(parts, 11),
   tag_id_list |-> P(parts, 13),
   tag_weigth_list |-> P(parts, 14)]

\* process_response that swallows the exception of a read and returns None
process_response_swallowing(r) ==
  IF Len(r.body) < 1 THEN ReturnNone
  ELSE IF FirstError(r.body[1], SyncReads) # "none" THEN ReturnNone
  ELSE Return(anime_info(r.body[1]))

\* process_response: nothing catches the IndexError or ValueError of a read
process_response(r) ==
  IF Len(r.body) < 1 THEN Raise("IndexError")
  ELSE LET e == FirstError(r.body[1], SyncReads)
       IN IF e # "none" THEN Raise(e) ELSE Return(anime_info(r.body[1]))

----------------------------------------------------------------------------
\* AniDBClient (blocking UDP client)

VARIABLES
  sync_pc,       \* position of the calling thread in the client's code
  sync_ctx,      \* the caller of the running authenticate()/close()
  sync_obj,      \* TRUE once __init__ has returned an object
  client,        \* self.client, the socket: "none", "open", "closed"
  username,      \* self.username: "user" or "None"
  session_key,   \* self.session_key: "None" when never assigned
  sync_auth,     \* what the exchanges so far make of the session
  sync_sent,     \* the commands sent by the running (or last) call
  sync_replies,  \* the replies received by that call
  sync_op,       \* the running (or last) call: "none", "init", "query", "close"
  sync_auth0,    \* sync_auth when that call started
  sync_key0,     \* session_key when that call started
  sync_out,      \* the result of the last call
  sync_elapsed,  \* time units since the last command left the socket
  sync_gap,      \* sync_elapsed when the last command was sent, -1 for the first
  sync_lost      \* TRUE when the reply awaited by recvfrom will never arrive

sync_vars == <<sync_pc, sync_ctx, sync_obj, client, username, session_key,
               sync_auth, sync_sent, sync_replies, sync_op, sync_auth0,
               sync_key0, sync_out, sync_elapsed, sync_gap, sync_lost>>

VARIABLES
  async_obj,          \* TRUE once AsyncAniDBClient(...) has been constructed
  credentials,        \* self.credentials: "None", "empty", "no_password", "full"
  session,            \* self.session: "None", "open", "closed"
  async_session_key,  \* self.session_key: "None" or the token
  async_scope,        \* the async with statement: "none", "entered", "failed", "left"
  async_op,           \* the last operation called on the client
  async_sent,         \* the commands that operation sent
  async_reply,        \* the reply that operation was given
  async_out           \* its result

async_vars == <<async_obj, credentials, session, async_session_key,
                async_scope, async_op, async_sent, async_reply, async_out>>

\* the decoding functions of the two clients applied to reply texts
VARIABLES
  codec_fn,     \* the function applied last
  codec_in,     \* the reply it was applied to
  codec_pos,    \* the payload position in which codec_in2 differs, -1 for none
  codec_in2,    \* a second reply
  codec_out,    \* the result for codec_in: of a payload decoder
  codec_out2,   \* the result for codec_in2
  codec_auth,   \* the result for codec_in: of an AUTH reply decoder
  codec_auth2   \* the result for codec_in2

codec_vars == <<codec_fn, codec_in, codec_pos, codec_in2, codec_out,
                codec_out2, codec_auth, codec_auth2>>

\* The AnimeProcessingWorker threads, each with the client it creates, and
\* the Widget that starts them. The w_ variables are functions of the thread.
VARIABLES
  w_pc,            \* none, started, check, body, finally, emit, done
  w_should_cancel, \* worker._should_cancel
  w_is_running,    \* worker._is_running
  w_max_retries,   \* settings['max_retries'], 0 when there are no settings
  w_session,       \* the session of the worker's client: none, open, closed
  w_session_key,   \* the session_key of the worker's client, "" for None
  w_attempts,      \* requests the worker's client has sent
  w_error,         \* the exception reported by error_occurred, "" for none
  w_finished,      \* the argument of processing_finished: none, True, False
  w_emitted,       \* the signals the run has emitted, in order
  w_cancel_pc,     \* where the thread was when cancel() was first called, "" for never
  gui_worker,      \* the thread Widget.worker refers to, 0 without the attribute
  ui_enabled,      \* bGetHentai is enabled
  gui_waiting,     \* the GUI thread is inside worker.wait()
  w_queue          \* the signals queued for the GUI thread

worker_vars == <<w_pc, w_should_cancel, w_is_running, w_max_retries, w_session,
                 w_session_key, w_attempts, w_error, w_finished, w_emitted,
                 w_cancel_pc, gui_worker, ui_enabled, gui_waiting, w_queue>>

\* the two TagIDReader classes applied to id strings
VARIABLES
  tag_fn,    \* the module whose get_names_by_ids was applied: none, id_reader, TagIDReader
  tag_in,    \* tag_ids_string, as the sequence of its pieces between commas
  tag_out    \* the list returned

tag_vars == <<tag_fn, tag_in, tag_out>>

\* AnimeDatabase / HentaiDatabase and the table anime_info / hentai_info
VARIABLES
  db_class,   \* the class of the database object: none, AnimeDatabase, HentaiDatabase
  db_rows,    \* the committed rows of the table, as records [aid, romaji, path]
  db_prev,    \* the rows before the last operation
  db_op,      \* the last operation: none, init, add_anime, clean_database
  db_row,     \* the arguments of the last add_anime, as a row
  db_paths,   \* the argument of the last clean_database
  db_fault,   \* what went wrong in the last operation: none, KeyError, sqlite3.Error
  db_ret      \* what the last operation returned or raised

db_vars == <<db_class, db_rows, db_prev, db_op, db_row, db_paths, db_fault, db_ret>>

\* AnimeProcessingWorker.process_single_anime and process_existing_json
\* applied to one folder
VARIABLES
  psa_fn,   \* the method applied: none, process_single_anime, process_existing_json
  psa_in,   \* the folder and the worker it was applied to
  psa_out   \* what it returned and what it did on the way

psa_vars == <<psa_fn, psa_in, psa_out>>

\* the part of the program under consideration
VARIABLE component

Components == {"AniDBClient", "AsyncAniDBClient", "WireCodec",
               "AnimeProcessingWorker", "TagIDReader", "AnimeDatabase",
               "process_single_anime"}

vars == <<component, sync_vars, async_vars, codec_vars, worker_vars, tag_vars,
          db_vars, psa_vars>>

Profiles == {"known", "missing"}

Count(seq, x) == Cardinality({i \in DOMAIN seq : seq[i] = x})

\* the first token of a reply, "" for a transport error
CodeOf(r) == IF r.err \/ r.line1 = <<>> THEN "" ELSE r.line1[1]

\* load_profiles: (None, None) when the section is missing
load_profiles(prf) == IF prf = "known" THEN "user" ELSE "None"

\* close() that logs out and leaves the socket usable
CloseSocketLeftOpen(sock) == sock

\* socket.close() at the end of close()
CloseSocket(sock) == "closed"

\* authenticate(): what the reply makes of it
\*   ok: the first element of the returned pair, val: the second
authenticate(r) ==
  IF StartsWith(r, "200") \/ StartsWith(r, "201")
  THEN IF Len(r.line1) < 2 THEN [exc |-> "IndexError", ok |-> FALSE, val |-> ""]
       ELSE [exc |-> "", ok |-> TRUE, val |-> r.line1[2]]
  ELSE [exc |-> "", ok |-> FALSE, val |-> r.line1[1]]

\* sendto: nothing in the client waits before a command is sent
Timing(sentNow) ==
  /\ sync_lost' = FALSE
  /\ IF sentNow
     THEN sync_gap' = sync_elapsed /\ sync_elapsed' = 0
     ELSE UNCHANGED <<sync_gap, sync_elapsed>>

\* the calling thread is inside recvfrom
SyncWaiting ==
  sync_pc \in {"auth_wait", "query_wait", "aid_wait", "logout_wait"}

SyncInit ==
  /\ sync_pc = "none"
  /\ sync_ctx = "none"
  /\ sync_obj = FALSE
  /\ client = "none"
  /\ username = "None"
  /\ session_key = "None"
  /\ sync_auth = "Unauthenticated"
  /\ sync_sent = <<>>
  /\ sync_replies = <<>>
  /\ sync_op = "none"
  /\ sync_auth0 = "Unauthenticated"
  /\ sync_key0 = "None"
  /\ sync_out = NoCall
  /\ sync_elapsed = 0
  /\ sync_gap = -1
  /\ sync_lost = FALSE

\* AniDBClient(prfdesc) up to the AUTH command being sent
SyncNew(prf) ==
  /\ component = "AniDBClient"
  /\ UNCHANGED <<component, async_vars, codec_vars, worker_vars, tag_vars, db_vars, psa_vars>>
  /\ sync_pc \in {"none", "idle"}
  /\ sync_pc' = "auth_wait"
  /\ sync_ctx' = "ctor"
  /\ sync_obj' = FALSE
  /\ client' = "open"
  /\ username' = load_profiles(prf)
  /\ session_key' = "None"
  /\ sync_auth' = "Unauthenticated"
  /\ sync_sent' = <<"AUTH">>
  /\ sync_replies' = <<>>
  /\ sync_op' = "init"
  /\ sync_auth0' = "Unauthenticated"
  /\ sync_key0' = "None"
  /\ sync_out' = Pending
  /\ sync_elapsed' = 0
  /\ sync_gap' = -1
  /\ sync_lost' = FALSE

\* the rest of authenticate() and of its caller, once the AUTH reply is in
SyncRecvAuth(r) ==
  /\ ~sync_lost
  /\ component = "AniDBClient"
  /\ UNCHANGED <<component, async_vars, codec_vars, worker_vars, tag_vars, db_vars, psa_vars>>
  /\ sync_pc = "auth_wait"
  /\ sync_replies' = Append(sync_replies, r)
  /\ UNCHANGED <<client, username, sync_key0, sync_op, sync_auth0>>
  /\ IF r.err
     THEN \* recvfrom raised: the exception leaves authenticate and its caller
          /\ sync_pc' = IF sync_obj THEN "idle" ELSE "none"
          /\ sync_out' = Raise("OSError")
          /\ UNCHANGED <<sync_ctx, sync_obj, session_key, sync_auth, sync_sent>>
     ELSE LET a == authenticate(r) IN
          IF a.exc # ""
          THEN /\ sync_pc' = IF sync_obj THEN "idle" ELSE "none"
               /\ sync_out' = Raise(a.exc)
               /\ UNCHANGED <<sync_ctx, sync_obj, session_key, sync_auth, sync_sent>>
          ELSE IF ~a.ok
          THEN \* success == False: session_key holds the code, exit()
               /\ session_key' = a.val
               /\ sync_pc' = "exited"
               /\ sync_out' = Exited
               /\ UNCHANGED <<sync_ctx, sync_obj, sync_auth, sync_sent>>
          ELSE IF sync_ctx = "ctor"
          THEN /\ session_key' = a.val
               /\ sync_auth' = "Authenticated"
               /\ sync_obj' = TRUE
               /\ sync_pc' = "idle"
               /\ sync_out' = Return(NoInfo)
               /\ UNCHANGED <<sync_ctx, sync_sent>>
          ELSE \* re-login inside query_anidb: return self.query_anidb(name)
               /\ Count(sync_sent, "ANIME") < MaxQ
               /\ session_key' = a.val
               /\ sync_auth' = "Authenticated"
               /\ sync_sent' = Append(sync_sent, "ANIME")
               /\ sync_pc' = "query_wait"
               /\ UNCHANGED <<sync_ctx, sync_obj, sync_out>>
  /\ Timing(sync_pc' = "query_wait")

\* query_anidb(anime_name) up to the ANIME command being sent
SyncQuery ==
  /\ component = "AniDBClient"
  /\ UNCHANGED <<component, async_vars, codec_vars, worker_vars, tag_vars, db_vars, psa_vars>>
  /\ sync_pc = "idle"
  /\ sync_obj
  /\ sync_replies' = <<>>
  /\ sync_op' = "query"
  /\ sync_auth0' = sync_auth
  /\ sync_key0' = session_key
  /\ UNCHANGED <<sync_ctx, sync_obj, client, username, session_key, sync_auth>>
  /\ IF client = "open"
     THEN /\ sync_sent' = <<"ANIME">>
          /\ sync_pc' = "query_wait"
          /\ sync_out' = Pending
     ELSE \* sendto on a closed socket
          /\ sync_sent' = <<>>
          /\ sync_pc' = "idle"
          /\ sync_out' = Raise("OSError")
  /\ Timing(sync_pc' = "query_wait")

\* close() up to the LOGOUT command being sent; ctx names the caller
SendLogout(ctx) ==
  /\ sync_ctx' = ctx
  /\ IF client = "open"
     THEN /\ sync_sent' = Append(IF ctx = "user" THEN <<>> ELSE sync_sent, "LOGOUT")
          /\ sync_auth' = "LoggedOut"
          /\ sync_pc' = "logout_wait"
          /\ sync_out' = Pending
     ELSE /\ sync_sent' = IF ctx = "user" THEN <<>> ELSE sync_sent
          /\ sync_auth' = sync_auth
          /\ sync_pc' = "idle"
          /\ sync_out' = Raise("OSError")

\* the rest of query_anidb once the reply to ANIME aname=... is in;
\* accepted: the result of the AniDBFinderDialog
SyncRecvQuery(r, accepted) ==
  /\ ~sync_lost
  /\ component = "AniDBClient"
  /\ UNCHANGED <<component, async_vars, codec_vars, worker_vars, tag_vars, db_vars, psa_vars>>
  /\ sync_pc = "query_wait"
  /\ sync_replies' = Append(sync_replies, r)
  /\ UNCHANGED <<sync_obj, username, session_key, sync_key0, sync_op, sync_auth0>>
  /\ IF r.err
     THEN /\ sync_pc' = "idle"
          /\ sync_out' = Raise("OSError")
          /\ UNCHANGED <<sync_ctx, client, sync_auth, sync_sent>>
     ELSE IF StartsWith(r, "230")
     THEN /\ sync_pc' = "idle"
          /\ sync_out' = process_response(r)
          /\ UNCHANGED <<sync_ctx, client, sync_auth, sync_sent>>
     ELSE IF StartsWith(r, "330")
     THEN IF accepted
          THEN /\ sync_sent' = Append(sync_sent, "ANIME")
               /\ sync_pc' = "aid_wait"
               /\ UNCHANGED <<sync_ctx, client, sync_auth, sync_out>>
          ELSE /\ sync_pc' = "exited"
               /\ sync_out' = Exited
               /\ UNCHANGED <<sync_ctx, client, sync_auth, sync_sent>>
     ELSE IF StartsWith(r, "501")
     THEN \* "Session closed ... relogging": self.close()
          /\ SendLogout("relogin")
          /\ UNCHANGED client
     ELSE /\ sync_pc' = "exited"
          /\ sync_out' = Exited
          /\ UNCHANGED <<sync_ctx, client, sync_auth, sync_sent>>
  /\ Timing(sync_pc' \in {"aid_wait", "logout_wait"})

\* the reply to ANIME aid=... is handed to process_response as it is
SyncRecvAid(r) ==
  /\ ~sync_lost
  /\ component = "AniDBClient"
  /\ UNCHANGED <<component, async_vars, codec_vars, worker_vars, tag_vars, db_vars, psa_vars>>
  /\ sync_pc = "aid_wait"
  /\ sync_replies' = Append(sync_replies, r)
  /\ sync_pc' = "idle"
  /\ sync_out' = IF r.err THEN Raise("OSError") ELSE process_response(r)
  /\ UNCHANGED <<sync_ctx, sync_obj, client, username, session_key, sync_auth,
                 sync_sent, sync_key0, sync_op, sync_auth0>>
  /\ Timing(FALSE)

\* close() called by the user of the client
SyncClose ==
  /\ component = "AniDBClient"
  /\ UNCHANGED <<component, async_vars, codec_vars, worker_vars, tag_vars, db_vars, psa_vars>>
  /\ sync_pc = "idle"
  /\ sync_obj
  /\ sync_replies' = <<>>
  /\ sync_op' = "close"
  /\ sync_auth0' = sync_auth
  /\ sync_key0' = session_key
  /\ SendLogout("user")
  /\ UNCHANGED <<sync_obj, client, username, session_key>>
  /\ Timing(sync_pc' = "logout_wait")

\* the rest of close() once the LOGOUT reply is in, and of query_anidb when
\* it was the caller: authenticate(), then the query again
SyncRecvLogout(r) ==
  /\ ~sync_lost
  /\ component = "AniDBClient"
  /\ UNCHANGED <<component, async_vars, codec_vars, worker_vars, tag_vars, db_vars, psa_vars>>
  /\ sync_pc = "logout_wait"
  /\ sync_replies' = Append(sync_replies, r)
  /\ UNCHANGED <<sync_ctx, sync_obj, username, session_key, sync_auth, sync_key0,
                 sync_op, sync_auth0>>
  /\ IF r.err
     THEN /\ sync_pc' = "idle"
          /\ sync_out' = Raise("OSError")
          /\ UNCHANGED <<client, sync_sent>>
     ELSE /\ client' = CloseSocket(client)
          /\ IF sync_ctx = "user"
             THEN /\ sync_pc' = "idle"
                  /\ sync_out' = ReturnNone
                  /\ UNCHANGED sync_sent
             ELSE \* self.authenticate() of the re-login
                  IF client' = "open"
                  THEN /\ sync_sent' = Append(sync_sent, "AUTH")
                       /\ sync_pc' = "auth_wait"
                       /\ UNCHANGED sync_out
                  ELSE /\ sync_pc' = "idle"
                       /\ sync_out' = Raise("OSError")
                       /\ UNCHANGED sync_sent
  /\ Timing(sync_pc' = "auth_wait")

\* a time unit passes
SyncTick ==
  /\ component = "AniDBClient"
  /\ UNCHANGED <<component, async_vars, codec_vars, worker_vars, tag_vars, db_vars, psa_vars>>
  /\ sync_pc \notin {"none", "exited"}
  /\ sync_elapsed < MaxElapsed
  /\ sync_elapsed' = sync_elapsed + 1
  /\ UNCHANGED <<sync_pc, sync_ctx, sync_obj, client, username, session_key,
                 sync_auth, sync_sent, sync_replies, sync_op, sync_auth0,
                 sync_key0, sync_out, sync_gap, sync_lost>>

\* the datagram of the reply is lost: recvfrom, called on a socket without a
\* timeout, does not return
SyncReplyLost ==
  /\ component = "AniDBClient"
  /\ UNCHANGED <<component, async_vars, codec_vars, worker_vars, tag_vars, db_vars, psa_vars>>
  /\ SyncWaiting
  /\ ~sync_lost
  /\ sync_lost' = TRUE
  /\ UNCHANGED <<sync_pc, sync_ctx, sync_obj, client, username, session_key,
                 sync_auth, sync_sent, sync_replies, sync_op, sync_auth0,
                 sync_key0, sync_out, sync_elapsed, sync_gap>>

----------------------------------------------------------------------------
\* AsyncAniDBClient (aiohttp client)

CredentialValues == {"None", "empty", "no_password", "full"}

\* `not self.credentials`
NoCredentials(c) == c \in {"None", "empty"}

\* `not self.credentials or 'username' not in ... or 'password' not in ...`
InvalidCredentials(c) == c # "full"

AsyncReads ==
  << Rd(0, TRUE), Rd(1, FALSE), Rd(2, FALSE), Rd(4, FALSE), Rd(5, FALSE),
     Rd(6, FALSE), Rd(7, FALSE), Rd(8, TRUE), Rd(9, TRUE), Rd(10, TRUE),
     Rd(11, FALSE), Rd(13, FALSE), Rd(14, FALSE) >>

\* _handle_auth_response: the session key, "None" for None
handle_auth_response(r) ==
  IF StatusCode(r) \in {"200", "201"}
  THEN IF Len(r.line1) < 2 THEN "None" ELSE r.line1[2]
  ELSE "None"

\* _process_anime_response: the record, or None
process_anime_response(r) ==
  IF StatusCode(r) # "230" THEN ReturnNone
  ELSE IF Len(r.body) < 1 THEN ReturnNone
  ELSE LET parts == r.body[1] IN
       IF FirstError(parts, AsyncReads) # "none" THEN ReturnNone
       ELSE Return([aid |-> ParseInt(P(parts, 0)),
                    year |-> P(parts, 1),
                    type |-> P(parts, 2),
                    romaji |-> P(parts, 4),
                    kanji |-> P(parts, 5),
                    english |-> P(parts, 6),
                    synonyms |-> P(parts, 7),
                    episodes |-> ParseInt(P(parts, 8)),
                    ep_count |-> ParseInt(P(parts, 9)),
                    special_count |-> ParseInt(P(parts, 10)),
                    tag_name_list |-> P(parts, 11),
                    tag_id_list |-> P(parts, 13),
                    tag_weigth_list |-> P(parts, 14)])

\* authenticate(): the exception it ends with, "" when it returns.
\* self.config is not an attribute of the client, so line 57 raises
\* AttributeError before any command is built or sent.
async_authenticate(c) ==
  IF InvalidCredentials(c) THEN "RuntimeError" ELSE "AttributeError"

\* query_anime without its session check
NotAuthenticatedUnchecked(key) == FALSE

\* the guard of query_anime: `if not self.session_key`
NotAuthenticated(key) == key = "None"

\* logout(): the commands it sends; the reply and every exception are only logged
async_logout(key) == IF key # "None" THEN <<"LOGOUT">> ELSE <<>>

AsyncInit ==
  /\ async_obj = FALSE
  /\ credentials = "None"
  /\ session = "None"
  /\ async_session_key = "None"
  /\ async_scope = "none"
  /\ async_op = "none"
  /\ async_sent = <<>>
  /\ async_reply = TransportError
  /\ async_out = NoCall

\* AsyncAniDBClient(credentials, logger)
AsyncNew(c) ==
  /\ component = "AsyncAniDBClient"
  /\ UNCHANGED <<component, sync_vars, codec_vars, worker_vars, tag_vars, db_vars, psa_vars>>
  /\ async_obj' = TRUE
  /\ credentials' = c
  /\ session' = "None"
  /\ async_session_key' = "None"
  /\ async_scope' = "none"
  /\ async_op' = "init"
  /\ async_reply' = TransportError
  /\ async_sent' = <<>>
  /\ async_out' = Return(NoInfo)

\* await client.authenticate()
AsyncAuthenticate ==
  /\ component = "AsyncAniDBClient"
  /\ UNCHANGED <<component, sync_vars, codec_vars, worker_vars, tag_vars, db_vars, psa_vars>>
  /\ async_obj
  /\ async_op' = "authenticate"
  /\ async_reply' = TransportError
  /\ async_sent' = <<>>
  /\ async_out' = Raise(async_authenticate(credentials))
  /\ UNCHANGED <<async_obj, credentials, session, async_session_key, async_scope>>

\* await client.query_anime(query, by_id)
AsyncQueryAnime(r) ==
  /\ component = "AsyncAniDBClient"
  /\ UNCHANGED <<component, sync_vars, codec_vars, worker_vars, tag_vars, db_vars, psa_vars>>
  /\ async_obj
  /\ async_op' = "query_anime"
  /\ UNCHANGED <<async_obj, credentials, session, async_session_key, async_scope>>
  /\ IF NotAuthenticated(async_session_key)
     THEN /\ async_sent' = <<>>
          /\ async_reply' = TransportError
          /\ async_out' = Raise("ValueError")
     ELSE /\ async_sent' = <<"ANIME">>
          /\ async_reply' = r
          /\ async_out' = IF r.err THEN Raise("ClientError")
                          ELSE process_anime_response(r)

\* client._process_anime_response(data), applied to a reply text
AsyncProcessAnimeResponse(r) ==
  /\ component = "AsyncAniDBClient"
  /\ UNCHANGED <<component, sync_vars, codec_vars, worker_vars, tag_vars, db_vars, psa_vars>>
  /\ async_obj
  /\ ~r.err
  /\ async_op' = "_process_anime_response"
  /\ async_sent' = <<>>
  /\ async_reply' = r
  /\ async_out' = process_anime_response(r)
  /\ UNCHANGED <<async_obj, credentials, session, async_session_key, async_scope>>

\* await client.logout()
AsyncLogout ==
  /\ component = "AsyncAniDBClient"
  /\ UNCHANGED <<component, sync_vars, codec_vars, worker_vars, tag_vars, db_vars, psa_vars>>
  /\ async_obj
  /\ async_op' = "logout"
  /\ async_reply' = TransportError
  /\ async_sent' = async_logout(async_session_key)
  /\ async_out' = ReturnNone
  /\ UNCHANGED <<async_obj, credentials, session, async_session_key, async_scope>>

\* `async with client:` up to the body: __aenter__.  When __aenter__ raises,
\* the statement is left without __aexit__ being run.
AsyncEnter ==
  /\ component = "AsyncAniDBClient"
  /\ UNCHANGED <<component, sync_vars, codec_vars, worker_vars, tag_vars, db_vars, psa_vars>>
  /\ async_obj
  /\ async_scope = "none"
  /\ async_op' = "aenter"
  /\ async_reply' = TransportError
  /\ async_sent' = <<>>
  /\ UNCHANGED <<async_obj, credentials, async_session_key>>
  /\ IF NoCredentials(credentials)
     THEN /\ session' = session
          /\ async_scope' = "failed"
          /\ async_out' = Raise("RuntimeError")
     ELSE /\ session' = "open"
          /\ LET e == async_authenticate(credentials) IN
             IF e # ""
             THEN /\ async_scope' = "failed"
                  /\ async_out' = Raise(e)
             ELSE /\ async_scope' = "entered"
                  /\ async_out' = Return(NoInfo)

\* __aexit__: run by the async with statement when the body is left, or by a
\* caller that releases the client by hand
AsyncExit ==
  /\ component = "AsyncAniDBClient"
  /\ UNCHANGED <<component, sync_vars, codec_vars, worker_vars, tag_vars, db_vars, psa_vars>>
  /\ async_obj
  /\ async_op' = "aexit"
  /\ async_reply' = TransportError
  /\ async_out' = ReturnNone
  /\ async_scope' = IF async_scope = "entered" THEN "left" ELSE async_scope
  /\ UNCHANGED <<async_obj, credentials, async_session_key>>
  /\ IF session # "None"
     THEN /\ async_sent' = async_logout(async_session_key)
          /\ session' = "closed"
     ELSE /\ async_sent' = <<>>
          /\ session' = session

----------------------------------------------------------------------------
\* The decoders applied to reply texts

\* the 230 replies that carry a payload line
PayloadReplies == {r \in QueryReplies : ~r.err /\ StartsWith(r, "230") /\ Len(r.body) >= 1}

\* texts a payload position is changed to
OtherTexts == {"x", "0"}

\* the reply r with position i of its payload line replaced by v
WithPosition(r, i, v) ==
  [r EXCEPT !.body = <<[r.body[1] EXCEPT ![i + 1] = v]>>]

\* the pair returned by AniDBClient.authenticate, as a record
AuthPair(r) == LET a == authenticate(r) IN
  IF a.exc # "" THEN [raised |-> a.exc, ok |-> FALSE, val |-> ""]
  ELSE [raised |-> "", ok |-> a.ok, val |-> a.val]

NoAuthPair == [raised |-> "", ok |-> FALSE, val |-> ""]

CodecInit ==
  /\ codec_fn = "none"
  /\ codec_in = TransportError
  /\ codec_pos = -1
  /\ codec_in2 = TransportError
  /\ codec_out = NoCall
  /\ codec_out2 = NoCall
  /\ codec_auth = NoAuthPair
  /\ codec_auth2 = NoAuthPair

\* AniDBClient.process_response on a reply and on the reply changed in one
\* position
CodecProcessResponse(r, i, v) ==
  /\ component = "WireCodec"
  /\ UNCHANGED <<component, sync_vars, async_vars, worker_vars, tag_vars, db_vars, psa_vars>>
  /\ codec_fn = "none"
  /\ i < Len(r.body[1])
  /\ v # P(r.body[1], i)
  /\ codec_fn' = "process_response"
  /\ codec_in' = r
  /\ codec_pos' = i
  /\ codec_in2' = WithPosition(r, i, v)
  /\ codec_out' = process_response(r)
  /\ codec_out2' = process_response(codec_in2')
  /\ UNCHANGED <<codec_auth, codec_auth2>>

\* AsyncAniDBClient._process_anime_response, likewise
CodecProcessAnimeResponse(r, i, v) ==
  /\ component = "WireCodec"
  /\ UNCHANGED <<component, sync_vars, async_vars, worker_vars, tag_vars, db_vars, psa_vars>>
  /\ codec_fn = "none"
  /\ i < Len(r.body[1])
  /\ v # P(r.body[1], i)
  /\ codec_fn' = "_process_anime_response"
  /\ codec_in' = r
  /\ codec_pos' = i
  /\ codec_in2' = WithPosition(r, i, v)
  /\ codec_out' = process_anime_response(r)
  /\ codec_out2' = process_anime_response(codec_in2')
  /\ UNCHANGED <<codec_auth, codec_auth2>>

\* the reply handling of AniDBClient.authenticate on two AUTH replies
CodecAuthenticate(r1, r2) ==
  /\ component = "WireCodec"
  /\ UNCHANGED <<component, sync_vars, async_vars, worker_vars, tag_vars, db_vars, psa_vars>>
  /\ codec_fn = "none"
  /\ ~r1.err /\ ~r2.err
  /\ codec_fn' = "authenticate"
  /\ codec_in' = r1
  /\ codec_pos' = -1
  /\ codec_in2' = r2
  /\ codec_auth' = AuthPair(r1)
  /\ codec_auth2' = AuthPair(r2)
  /\ UNCHANGED <<codec_out, codec_out2>>

\* AsyncAniDBClient._handle_auth_response on two AUTH replies
CodecHandleAuthResponse(r1, r2) ==
  /\ component = "WireCodec"
  /\ UNCHANGED <<component, sync_vars, async_vars, worker_vars, tag_vars, db_vars, psa_vars>>
  /\ codec_fn = "none"
  /\ ~r1.err /\ ~r2.err
  /\ codec_fn' = "_handle_auth_response"
  /\ codec_in' = r1
  /\ codec_pos' = -1
  /\ codec_in2' = r2
  /\ codec_auth' = [raised |-> "", ok |-> handle_auth_response(r1) # "None",
                    val |-> handle_auth_response(r1)]
  /\ codec_auth2' = [raised |-> "", ok |-> handle_auth_response(r2) # "None",
                     val |-> handle_auth_response(r2)]
  /\ UNCHANGED <<codec_out, codec_out2>>

----------------------------------------------------------------------------
\* AnimeProcessingWorker

\* the worker threads: the one self.worker refers to and one that was
\* started before it and whose run() has not returned
Threads == {1, 2}

\* the signals that can be waiting for the GUI thread
MaxSignals == 3

\* the values of max_retries in the configuration
MaxRetriesValues == {3}

\* the keyword arguments of AsyncAniDBClient.__init__
AcceptsKeywordsAny(kw) == TRUE

AcceptsKeywords(kw) == kw \subseteq {"credentials", "logger"}

\* the keyword arguments run() passes to AsyncAniDBClient
WorkerKeywords == {"credentials", "logger", "max_retries"}

\* processing_finished.emit(False) whatever the flag is
FinishedArgFalse(cancel) == "False"

\* the argument of processing_finished.emit(self._should_cancel)
FinishedArg(cancel) == IF cancel THEN "True" ELSE "False"

\* the run emits processing_finished a second time
EmitFinishedTwice(emitted) ==
  emitted \o <<"processing_finished", "processing_finished">>

\* self.processing_finished.emit(...)
EmitFinished(emitted) == Append(emitted, "processing_finished")

\* the thread has been started and its run() has not returned
Alive(t) == w_pc[t] \notin {"none", "done"}

\* a worker whose run() has returned is deleted when the Widget drops or
\* replaces self.worker: f without the finished threads, which get init
Forget(f, init) == [u \in Threads |-> IF w_pc[u] = "done" THEN init ELSE f[u]]

\* every field of the finished threads is as after construction
ForgetFinished ==
  /\ w_pc' = Forget(w_pc, "none")
  /\ w_should_cancel' = Forget(w_should_cancel, FALSE)
  /\ w_is_running' = Forget(w_is_running, FALSE)
  /\ w_max_retries' = Forget(w_max_retries, 0)
  /\ w_session' = Forget(w_session, "none")
  /\ w_session_key' = Forget(w_session_key, "")
  /\ w_attempts' = Forget(w_attempts, 0)
  /\ w_error' = Forget(w_error, "")
  /\ w_finished' = Forget(w_finished, "none")
  /\ w_emitted' = Forget(w_emitted, <<>>)
  /\ w_cancel_pc' = Forget(w_cancel_pc, "")

WorkerInit ==
  /\ w_pc = [t \in Threads |-> "none"]
  /\ w_should_cancel = [t \in Threads |-> FALSE]
  /\ w_is_running = [t \in Threads |-> FALSE]
  /\ w_max_retries = [t \in Threads |-> 0]
  /\ w_session = [t \in Threads |-> "none"]
  /\ w_session_key = [t \in Threads |-> ""]
  /\ w_attempts = [t \in Threads |-> 0]
  /\ w_error = [t \in Threads |-> ""]
  /\ w_finished = [t \in Threads |-> "none"]
  /\ w_emitted = [t \in Threads |-> <<>>]
  /\ w_cancel_pc = [t \in Threads |-> ""]
  /\ gui_worker = 0
  /\ ui_enabled = TRUE
  /\ gui_waiting = FALSE
  /\ w_queue = <<>>

\* Widget.processFolder, clicked while bGetHentai is enabled, for a folder
\* with subdirectories and a complete configuration: it returns when
\* self.worker exists and is running, and creates and starts a thread
\* otherwise; t is the first thread that is not alive
WorkerStart(t) ==
  /\ component = "AnimeProcessingWorker"
  /\ UNCHANGED <<component, sync_vars, async_vars, codec_vars, tag_vars, db_vars, psa_vars>>
  /\ ui_enabled /\ ~gui_waiting
  /\ ~(gui_worker # 0 /\ w_is_running[gui_worker])
  /\ ~Alive(t)
  /\ \A u \in Threads : u < t => Alive(u)
  /\ Len(w_queue) < MaxSignals - 1
  /\ w_pc' = [Forget(w_pc, "none") EXCEPT ![t] = "started"]
  /\ w_should_cancel' = Forget(w_should_cancel, FALSE)
  /\ w_is_running' = Forget(w_is_running, FALSE)
  /\ w_max_retries' = Forget(w_max_retries, 0)
  /\ w_session' = Forget(w_session, "none")
  /\ w_session_key' = Forget(w_session_key, "")
  /\ w_attempts' = Forget(w_attempts, 0)
  /\ w_error' = Forget(w_error, "")
  /\ w_finished' = Forget(w_finished, "none")
  /\ w_emitted' = Forget(w_emitted, <<>>)
  /\ w_cancel_pc' = Forget(w_cancel_pc, "")
  /\ gui_worker' = t
  /\ ui_enabled' = FALSE
  /\ UNCHANGED <<gui_waiting, w_queue>>

\* run() up to the call of main()
WorkerRun(t) ==
  /\ component = "AnimeProcessingWorker"
  /\ UNCHANGED <<component, sync_vars, async_vars, codec_vars, tag_vars, db_vars, psa_vars>>
  /\ w_pc[t] = "started"
  /\ w_is_running' = [w_is_running EXCEPT ![t] = TRUE]
  /\ w_pc' = [w_pc EXCEPT ![t] = "check"]
  /\ UNCHANGED <<w_should_cancel, w_max_retries, w_session, w_session_key,
                 w_attempts, w_error, w_finished, w_emitted, w_cancel_pc,
                 gui_worker, ui_enabled, gui_waiting, w_queue>>

\* main(): the check of _should_cancel before anything is set up
WorkerCancelCheck(t) ==
  /\ component = "AnimeProcessingWorker"
  /\ UNCHANGED <<component, sync_vars, async_vars, codec_vars, tag_vars, db_vars, psa_vars>>
  /\ w_pc[t] = "check"
  /\ w_pc' = [w_pc EXCEPT ![t] = IF w_should_cancel[t] THEN "finally" ELSE "body"]
  /\ UNCHANGED <<w_should_cancel, w_is_running, w_max_retries, w_session,
                 w_session_key, w_attempts, w_error, w_finished, w_emitted,
                 w_cancel_pc, gui_worker, ui_enabled, gui_waiting, w_queue>>

\* main(): the settings, the client and the except clause, which emits
\* error_occurred; retries is 0 when get_anidb_settings returns None
WorkerMain(t, retries) ==
  /\ component = "AnimeProcessingWorker"
  /\ UNCHANGED <<component, sync_vars, async_vars, codec_vars, tag_vars, db_vars, psa_vars>>
  /\ w_pc[t] = "body"
  /\ w_max_retries' = [w_max_retries EXCEPT ![t] = retries]
  /\ IF retries = 0
     THEN \* raise ValueError("No AniDB settings configured")
          /\ w_error' = [w_error EXCEPT ![t] = "ValueError"]
          /\ UNCHANGED <<w_session, w_session_key, w_attempts>>
     ELSE IF ~AcceptsKeywords(WorkerKeywords)
     THEN \* __init__() got an unexpected keyword argument
          /\ w_error' = [w_error EXCEPT ![t] = "TypeError"]
          /\ UNCHANGED <<w_session, w_session_key, w_attempts>>
     ELSE \* __aenter__ creates the session, authenticate raises before it
          \* sends a request, __aexit__ is not run
          /\ w_session' = [w_session EXCEPT ![t] = "open"]
          /\ w_error' = [w_error EXCEPT ![t] = async_authenticate("full")]
          /\ UNCHANGED <<w_session_key, w_attempts>>
  /\ w_emitted' = [w_emitted EXCEPT ![t] = Append(@, "error_occurred")]
  /\ w_queue' = Append(w_queue, "error_occurred")
  /\ w_pc' = [w_pc EXCEPT ![t] = "finally"]
  /\ UNCHANGED <<w_should_cancel, w_is_running, w_finished, w_cancel_pc,
                 gui_worker, ui_enabled, gui_waiting>>

\* main(): the finally clause, self._is_running = False
WorkerFinally(t) ==
  /\ component = "AnimeProcessingWorker"
  /\ UNCHANGED <<component, sync_vars, async_vars, codec_vars, tag_vars, db_vars, psa_vars>>
  /\ w_pc[t] = "finally"
  /\ w_is_running' = [w_is_running EXCEPT ![t] = FALSE]
  /\ w_pc' = [w_pc EXCEPT ![t] = "emit"]
  /\ UNCHANGED <<w_should_cancel, w_max_retries, w_session, w_session_key,
                 w_attempts, w_error, w_finished, w_emitted, w_cancel_pc,
                 gui_worker, ui_enabled, gui_waiting, w_queue>>

\* main(): the finally clause, processing_finished.emit(_should_cancel),
\* and the return of run()
WorkerEmitFinished(t) ==
  /\ component = "AnimeProcessingWorker"
  /\ UNCHANGED <<component, sync_vars, async_vars, codec_vars, tag_vars, db_vars, psa_vars>>
  /\ w_pc[t] = "emit"
  /\ w_finished' = [w_finished EXCEPT ![t] = FinishedArg(w_should_cancel[t])]
  /\ w_emitted' = [w_emitted EXCEPT ![t] = EmitFinished(@)]
  /\ w_queue' = Append(w_queue, "processing_finished")
  /\ w_pc' = [w_pc EXCEPT ![t] = "done"]
  /\ UNCHANGED <<w_should_cancel, w_is_running, w_max_retries, w_session,
                 w_session_key, w_attempts, w_error, w_cancel_pc, gui_worker,
                 ui_enabled, gui_waiting>>

\* Widget.cancel_processing calls self.worker.cancel()
WorkerCancel ==
  /\ component = "AnimeProcessingWorker"
  /\ UNCHANGED <<component, sync_vars, async_vars, codec_vars, tag_vars, db_vars, psa_vars>>
  /\ gui_worker # 0 /\ ~gui_waiting
  /\ ~w_should_cancel[gui_worker]
  /\ w_should_cancel' = [w_should_cancel EXCEPT ![gui_worker] = TRUE]
  /\ w_cancel_pc' = [w_cancel_pc EXCEPT ![gui_worker] = w_pc[gui_worker]]
  /\ UNCHANGED <<w_pc, w_is_running, w_max_retries, w_session, w_session_key,
                 w_attempts, w_error, w_finished, w_emitted, gui_worker,
                 ui_enabled, gui_waiting, w_queue>>

\* Widget.on_error_occurred, run by the GUI thread for a queued signal
WorkerOnError ==
  /\ component = "AnimeProcessingWorker"
  /\ UNCHANGED <<component, sync_vars, async_vars, codec_vars, tag_vars, db_vars, psa_vars>>
  /\ ~gui_waiting
  /\ w_queue # <<>> /\ Head(w_queue) = "error_occurred"
  /\ w_queue' = Tail(w_queue)
  /\ ui_enabled' = TRUE
  /\ UNCHANGED <<w_pc, w_should_cancel, w_is_running, w_max_retries, w_session,
                 w_session_key, w_attempts, w_error, w_finished, w_emitted,
                 w_cancel_pc, gui_worker, gui_waiting>>

\* Widget.on_processing_finished, run by the GUI thread for a queued signal:
\* it waits for self.worker when that is running, then deletes the attribute
WorkerOnFinished ==
  /\ component = "AnimeProcessingWorker"
  /\ UNCHANGED <<component, sync_vars, async_vars, codec_vars, tag_vars, db_vars, psa_vars>>
  /\ ~gui_waiting
  /\ w_queue # <<>> /\ Head(w_queue) = "processing_finished"
  /\ w_queue' = Tail(w_queue)
  /\ IF gui_worker # 0 /\ w_is_running[gui_worker]
     THEN /\ gui_waiting' = TRUE
          /\ UNCHANGED <<gui_worker, ui_enabled>>
          /\ UNCHANGED <<w_pc, w_should_cancel, w_is_running, w_max_retries,
                         w_session, w_session_key, w_attempts, w_error,
                         w_finished, w_emitted, w_cancel_pc>>
     ELSE /\ gui_worker' = 0
          /\ ui_enabled' = TRUE
          /\ ForgetFinished
          /\ UNCHANGED gui_waiting

\* the rest of Widget.on_processing_finished once worker.wait() has returned
WorkerWaitOver ==
  /\ component = "AnimeProcessingWorker"
  /\ UNCHANGED <<component, sync_vars, async_vars, codec_vars, tag_vars, db_vars, psa_vars>>
  /\ gui_waiting
  /\ w_pc[gui_worker] = "done"
  /\ gui_waiting' = FALSE
  /\ gui_worker' = 0
  /\ ui_enabled' = TRUE
  /\ ForgetFinished
  /\ UNCHANGED w_queue

----------------------------------------------------------------------------
\* TagIDReader

MaxIds == 2

\* tag_id_name_dict as loaded from tags.json
tag_id_name_dict == [id \in {"1", "2"} |-> IF id = "1" THEN "action" ELSE "comedy"]

\* the pieces an id string may have between its commas
Pieces == {"1", "2", "9", "", " 1"}

\* the id strings: str.split(',') gives at least one piece
IdStrings == UNION {[1..n -> Pieces] : n \in 1..MaxIds}

\* str.strip()
strip(p) == IF p = " 1" THEN "1" ELSE p

NonEmpty(p) == p # ""

\* the name for an id, "" for an id that is not in the table
NameOf(id) ==
  IF id \in DOMAIN tag_id_name_dict THEN tag_id_name_dict[id] ELSE ""

\* id_reader.TagIDReader.get_names_by_ids
get_names_by_ids(pieces) ==
  IF pieces = <<"">> THEN <<>>
  ELSE LET tag_id_list ==
             SelectSeq([i \in DOMAIN pieces |-> strip(pieces[i])], NonEmpty)
       IN [i \in DOMAIN tag_id_list |-> NameOf(tag_id_list[i])]

\* TagIDReader.TagIDReader.get_names_by_ids
legacy_get_names_by_ids(pieces) ==
  [i \in DOMAIN pieces |-> NameOf(pieces[i])]

TagInit ==
  /\ tag_fn = "none"
  /\ tag_in = <<>>
  /\ tag_out = <<>>

\* tagreader.get_names_by_ids(s) of module id_reader
TagGetNames(s) ==
  /\ component = "TagIDReader"
  /\ UNCHANGED <<component, sync_vars, async_vars, codec_vars, worker_vars, db_vars, psa_vars>>
  /\ tag_fn = "none"
  /\ tag_fn' = "id_reader"
  /\ tag_in' = s
  /\ tag_out' = get_names_by_ids(s)

\* get_names_by_ids(s) of module TagIDReader
TagLegacyGetNames(s) ==
  /\ component = "TagIDReader"
  /\ UNCHANGED <<component, sync_vars, async_vars, codec_vars, worker_vars, db_vars, psa_vars>>
  /\ tag_fn = "none"
  /\ tag_fn' = "TagIDReader"
  /\ tag_in' = s
  /\ tag_out' = legacy_get_names_by_ids(s)

----------------------------------------------------------------------------
\* AnimeDatabase and HentaiDatabase

Aids == {1, 2}

Titles == {"A", "B"}

\* stored paths: "" stands for an empty or NULL path, "/p/." is another
\* spelling of "/p"
StoredPaths == {"", "/p", "/q", "/p/."}

Rows == [aid : Aids, romaji : Titles, path : StoredPaths]

\* str(Path(p).resolve())
resolve(p) == IF p = "/p/." THEN "/p" ELSE p

\* the arguments of clean_database: None or a list of paths
NoPaths == [none |-> TRUE, paths |-> {}]

PathLists ==
  {NoPaths} \cup {[none |-> FALSE, paths |-> ps] : ps \in SUBSET {"/p", "/q", "/p/."}}

Faults == {"none", "KeyError", "sqlite3.Error"}

\* INSERT ... ON CONFLICT(aid) DO UPDATE SET every other column
Upsert(rows, row) == {r \in rows : r.aid # row.aid} \cup {row}

\* the rows clean_database deletes
ToDelete(rows, existing_paths) ==
  IF existing_paths.none THEN rows
  ELSE LET valid_paths == {resolve(q) : q \in existing_paths.paths}
       IN {r \in rows : r.path = "" \/ resolve(r.path) \notin valid_paths}

\* conn.rollback() that leaves the deletions in place
RollbackKeeps(committed, pending) == pending

\* conn.rollback(): the uncommitted statements are undone
Rollback(committed, pending) == committed

NoRow == [aid |-> 0, romaji |-> "", path |-> ""]

\* what an operation returned: kind is none, None, lastrowid, count or raise
Ret(kind, n) == [kind |-> kind, count |-> n]

DbInit ==
  /\ db_class = "none"
  /\ db_rows = {}
  /\ db_prev = {}
  /\ db_op = "none"
  /\ db_row = NoRow
  /\ db_paths = NoPaths
  /\ db_fault = "none"
  /\ db_ret = Ret("none", 0)

\* AnimeDatabase(logger) / HentaiDatabase(): connect and create the table
DbNew(cls) ==
  /\ component = "AnimeDatabase"
  /\ UNCHANGED <<component, sync_vars, async_vars, codec_vars, worker_vars, tag_vars, psa_vars>>
  /\ db_class = "none"
  /\ db_class' = cls
  /\ db_op' = "init"
  /\ UNCHANGED <<db_rows, db_prev, db_row, db_paths, db_fault, db_ret>>

\* AnimeDatabase.add_anime(anime_info, path); fault KeyError is an
\* anime_info without one of the columns
DbAddAnime(row, fault) ==
  /\ component = "AnimeDatabase"
  /\ UNCHANGED <<component, sync_vars, async_vars, codec_vars, worker_vars, tag_vars, psa_vars>>
  /\ db_class = "AnimeDatabase"
  /\ db_op' = "add_anime"
  /\ db_prev' = db_rows
  /\ db_row' = row
  /\ db_paths' = NoPaths
  /\ db_fault' = fault
  /\ UNCHANGED db_class
  /\ CASE fault = "none" ->
            /\ db_rows' = Upsert(db_rows, row)
            /\ db_ret' = Ret("lastrowid", 0)
       [] fault = "KeyError" ->
            /\ db_rows' = db_rows
            /\ db_ret' = Ret("None", 0)
       [] OTHER ->
            /\ db_rows' = Rollback(db_rows, db_rows)
            /\ db_ret' = Ret("None", 0)

\* HentaiDatabase.add_anime(anime_info, path): no exception is handled and
\* nothing is returned
DbHentaiAddAnime(row, fault) ==
  /\ component = "AnimeDatabase"
  /\ UNCHANGED <<component, sync_vars, async_vars, codec_vars, worker_vars, tag_vars, psa_vars>>
  /\ db_class = "HentaiDatabase"
  /\ db_op' = "add_anime"
  /\ db_prev' = db_rows
  /\ db_row' = row
  /\ db_paths' = NoPaths
  /\ db_fault' = fault
  /\ UNCHANGED db_class
  /\ IF fault = "none"
     THEN /\ db_rows' = Upsert(db_rows, row)
          /\ db_ret' = Ret("None", 0)
     ELSE /\ db_rows' = db_rows
          /\ db_ret' = Ret("raise", 0)

\* AnimeDatabase.clean_database(existing_paths); the fault is a database
\* error after the DELETE statements
DbCleanDatabase(existing_paths, fault) ==
  /\ component = "AnimeDatabase"
  /\ UNCHANGED <<component, sync_vars, async_vars, codec_vars, worker_vars, tag_vars, psa_vars>>
  /\ db_class = "AnimeDatabase"
  /\ fault # "KeyError"
  /\ db_op' = "clean_database"
  /\ db_prev' = db_rows
  /\ db_paths' = existing_paths
  /\ db_row' = NoRow
  /\ db_fault' = fault
  /\ UNCHANGED db_class
  /\ LET pending == db_rows \ ToDelete(db_rows, existing_paths) IN
     IF fault = "none"
     THEN /\ db_rows' = pending
          /\ db_ret' = Ret("count", Cardinality(ToDelete(db_rows, existing_paths)))
     ELSE /\ db_rows' = Rollback(db_rows, pending)
          /\ db_ret' = Ret("raise", 0)

----------------------------------------------------------------------------
\* process_single_anime and process_existing_json

\* a folder as the worker finds it:
\*   cancel  - _should_cancel
\*   in_db   - db.anime_exists(anime_name)
\*   file    - aniinfo.json exists in the folder
\*   json_ok - the contents of aniinfo.json pass the integrity check
Folders ==
  [cancel : BOOLEAN, in_db : BOOLEAN, file : BOOLEAN, json_ok : BOOLEAN]

NoFolder ==
  [cancel |-> FALSE, in_db |-> FALSE, file |-> FALSE, json_ok |-> FALSE]

\* the result of a method: ret is what it returned (None or anime_info),
\* sent the queries sent to the service, upserts the calls of db.add_anime,
\* written the calls of hson.create_json
Done(ret, sent, upserts, written) ==
  [ret |-> ret, sent |-> sent, upserts |-> upserts, written |-> written]

\* hson.check_data_integrity(...): the method has one required parameter,
\* anime_info; `given` tells whether the call passes it
check_data_integrity(given, ok) ==
  IF ~given THEN "TypeError" ELSE IF ok THEN "True" ELSE "False"

\* fetch_anime_info: query_anime raises ValueError without a session key,
\* and the exception is answered with None
fetch_anime_info(key) ==
  IF NotAuthenticated(key) THEN Done("None", 0, 0, 0)
  ELSE Done("anime_info", 1, 0, 0)

\* what follows a fetch: tag names, create_json and add_anime for a record
AfterFetch(f) ==
  IF f.ret = "anime_info" THEN Done("anime_info", f.sent, 1, 1) ELSE f

\* process_existing_json: the integrity check is called without argument
process_existing_json(folder, key) ==
  LET c == check_data_integrity(FALSE, folder.json_ok) IN
  CASE c = "TypeError" -> Done("None", 0, 0, 0)
    [] c = "True" -> Done("anime_info", 0, 1, 0)
    [] OTHER -> AfterFetch(fetch_anime_info(key))

process_single_anime(folder, key) ==
  IF folder.cancel THEN Done("None", 0, 0, 0)
  ELSE IF folder.in_db THEN Done("None", 0, 0, 0)
  ELSE IF ~folder.file THEN AfterFetch(fetch_anime_info(key))
  ELSE process_existing_json(folder, key)

PsaInit ==
  /\ psa_fn = "none"
  /\ psa_in = NoFolder
  /\ psa_out = Done("none", 0, 0, 0)

\* await worker.process_single_anime(...) with the worker's client, which
\* has no session key
ProcessSingleAnime(folder) ==
  /\ component = "process_single_anime"
  /\ UNCHANGED <<component, sync_vars, async_vars, codec_vars, worker_vars, tag_vars, db_vars>>
  /\ psa_fn = "none"
  /\ psa_fn' = "process_single_anime"
  /\ psa_in' = folder
  /\ psa_out' = process_single_anime(folder, "None")

\* await worker.process_existing_json(...) for a folder with an aniinfo.json
ProcessExistingJson(folder) ==
  /\ component = "process_single_anime"
  /\ UNCHANGED <<component, sync_vars, async_vars, codec_vars, worker_vars, tag_vars, db_vars>>
  /\ psa_fn = "none"
  /\ folder.file
  /\ psa_fn' = "process_existing_json"
  /\ psa_in' = folder
  /\ psa_out' = process_existing_json(folder, "None")

----------------------------------------------------------------------------

Init == component \in Components /\ SyncInit /\ AsyncInit /\ CodecInit /\ WorkerInit /\ TagInit /\ DbInit /\ PsaInit

Next ==
  \/ \E prf \in Profiles : SyncNew(prf)
  \/ \E r \in AuthReplies : SyncRecvAuth(r)
  \/ SyncQuery
  \/ \E r \in QueryReplies, accepted \in BOOLEAN : SyncRecvQuery(r, accepted)
  \/ \E r \in QueryReplies : SyncRecvAid(r)
  \/ SyncClose
  \/ \E r \in LogoutReplies : SyncRecvLogout(r)
  \/ SyncTick
  \/ SyncReplyLost
  \/ \E c \in CredentialValues : AsyncNew(c)
  \/ AsyncAuthenticate
  \/ \E r \in QueryReplies : AsyncQueryAnime(r)
  \/ \E r \in QueryReplies : AsyncProcessAnimeResponse(r)
  \/ AsyncLogout
  \/ AsyncEnter
  \/ AsyncExit
  \/ \E r \in PayloadReplies, i \in 0..14, v \in OtherTexts :
       CodecProcessResponse(r, i, v)
  \/ \E r \in PayloadReplies, i \in 0..14, v \in OtherTexts :
       CodecProcessAnimeResponse(r, i, v)
  \/ \E r1 \in AuthReplies, r2 \in AuthReplies : CodecAuthenticate(r1, r2)
  \/ \E r1 \in AuthReplies, r2 \in AuthReplies : CodecHandleAuthResponse(r1, r2)
  \/ \E t \in Threads : WorkerStart(t)
  \/ \E t \in Threads : WorkerRun(t)
  \/ \E t \in Threads : WorkerCancelCheck(t)
  \/ \E t \in Threads, retries \in MaxRetriesValues \cup {0} : WorkerMain(t, retries)
  \/ \E t \in Threads : WorkerFinally(t)
  \/ \E t \in Threads : WorkerEmitFinished(t)
  \/ WorkerCancel
  \/ WorkerOnError
  \/ WorkerOnFinished
  \/ WorkerWaitOver
  \/ \E s \in IdStrings : TagGetNames(s)
  \/ \E s \in IdStrings : TagLegacyGetNames(s)
  \/ \E cls \in {"AnimeDatabase", "HentaiDatabase"} : DbNew(cls)
  \/ \E row \in Rows, fault \in Faults : DbAddAnime(row, fault)
  \/ \E row \in Rows, fault \in Faults : DbHentaiAddAnime(row, fault)
  \/ \E ps \in PathLists, fault \in Faults : DbCleanDatabase(ps, fault)
  \/ \E folder \in Folders : ProcessSingleAnime(folder)
  \/ \E folder \in Folders : ProcessExistingJson(folder)

Spec == Init /\ [][Next]_vars

\* a reply that is on its way is eventually handed to the waiting recvfrom
Fairness ==
  /\ WF_vars(\E r \in AuthReplies : SyncRecvAuth(r))
  /\ WF_vars(\E r \in QueryReplies, accepted \in BOOLEAN : SyncRecvQuery(r, accepted))
  /\ WF_vars(\E r \in QueryReplies : SyncRecvAid(r))
  /\ WF_vars(\E r \in LogoutReplies : SyncRecvLogout(r))
  /\ \A t \in Threads :
       /\ WF_vars(WorkerRun(t))
       /\ WF_vars(WorkerCancelCheck(t))
       /\ WF_vars(\E retries \in MaxRetriesValues \cup {0} : WorkerMain(t, retries))
       /\ WF_vars(WorkerFinally(t))
       /\ WF_vars(WorkerEmitFinished(t))

LiveSpec == Spec /\ Fairness

----------------------------------------------------------------------------
\* Properties

Last(seq) == seq[Len(seq)]

\* a query_anidb call that has ended, by returning, raising or exit()
SyncQueryOver ==
  sync_op = "query" /\ sync_pc \in {"idle", "exited"} /\ sync_replies # <<>>

FirstCode == CodeOf(sync_replies[1])

\* a 230 reply whose payload line has fewer than 15 positions
ShortPayload(r) ==
  ~r.err /\ StartsWith(r, "230") /\ Len(r.body) >= 1 /\ Len(r.body[1]) < 15

Cooperative(r) ==
  r \in { Reply(<<"byebye", "203", "LOGGED", "OUT">>, <<>>),
          Reply(<<"200", "abc123", "LOGIN", "ACCEPTED">>, <<>>),
          Reply(<<"230", "ANIME">>, <<Full15>>) }

\* C2: a query whose first reply is 501 and whose later replies are all
\* favourable re-authenticates once, sends the query once more and returns
\* the record.
C2_ReplayReturnsRecord ==
  ( /\ SyncQueryOver /\ FirstCode = "501"
    /\ \A i \in 2..Len(sync_replies) : Cooperative(sync_replies[i]) )
  => /\ Count(sync_sent, "AUTH") = 1
     /\ Count(sync_sent, "ANIME") = 2
     /\ sync_out.kind = "return"
     /\ sync_auth = "Authenticated"

\* C3: between calls on an existing client, session_key is set if and only if
\* the client is Authenticated.
C3_TokenIffAuthenticated ==
  (sync_obj /\ sync_pc = "idle")
  => ((session_key # "None") <=> (sync_auth = "Authenticated"))

AuthFailureCodes == {"500", "501", "502", "503", "504", "506"}

\* C4: after authenticate has handled its reply, a 200/201 reply leaves the
\* client Authenticated with the reply's second token as session_key, and a
\* 500/501/502/503/504/506 reply leaves it Unauthenticated with no session_key.
C4_AuthenticateOutcome ==
  ( /\ sync_op = "init" /\ sync_pc \in {"idle", "none", "exited"}
    /\ sync_replies # <<>> /\ ~sync_replies[1].err
    /\ Len(sync_replies[1].line1) >= 2 )
  => LET r == sync_replies[1] IN
     /\ (CodeOf(r) \in {"200", "201"})
          => (sync_auth = "Authenticated" /\ session_key = r.line1[2])
     /\ (CodeOf(r) \in AuthFailureCodes)
          => (sync_auth = "Unauthenticated" /\ session_key = "None")

\* C5: once the async with statement of a client that opened its session has
\* been left, the session is closed.
C5_ScopeReleasesTransport ==
  (async_scope \in {"failed", "left"} /\ session # "None")
  => session = "closed"

\* C6: close() called while Authenticated sends LOGOUT and ends LoggedOut
\* with the socket closed and nothing raised, whatever the reply is.
C6_LogoutNeverBlocks ==
  (sync_op = "close" /\ sync_pc = "idle" /\ sync_auth0 = "Authenticated")
  => /\ sync_sent = <<"LOGOUT">>
     /\ sync_auth = "LoggedOut"
     /\ sync_out.kind # "raise"
     /\ client = "closed"

\* C7: a query answered with 330 hands a no-record result to its caller and
\* leaves session_key, the auth state and the socket as they were.
C7_NotFoundKeepsSession ==
  (SyncQueryOver /\ FirstCode = "330")
  => /\ sync_pc = "idle"
     /\ sync_out.kind = "None"
     /\ session_key = sync_key0
     /\ sync_auth = "Authenticated"
     /\ client = "open"

\* C8: a query answered with an unexpected status (598) raises an error that
\* carries that status, and the client stays Authenticated and usable.
C8_ProtocolErrorCarriesCode ==
  (SyncQueryOver /\ FirstCode = "598")
  => /\ sync_pc = "idle"
     /\ sync_out.kind = "raise"
     /\ sync_out.exc = FirstCode
     /\ sync_auth = "Authenticated"
     /\ client = "open"

\* C9: query_anime on a client without a session key raises "Not
\* authenticated" and sends no command.
C9_QueryRequiresSession ==
  (async_op = "query_anime" /\ async_session_key = "None")
  => (async_out = Raise("ValueError") /\ async_sent = <<>>)

C9_Witness ==
  /\ async_op = "query_anime"
  /\ async_session_key = "None"
  /\ async_out = Raise("ValueError")
  /\ async_sent = <<>>

C15_NoProcessExit == sync_pc # "exited" /\ sync_out.kind # "exit"

\* the record of the documented scenario
ScenarioRecord(v) ==
  /\ v.aid = 5 /\ v.year = "2021" /\ v.type = "TV"
  /\ v.romaji = "Title EN" /\ v.kanji = "Title JP" /\ v.synonyms = "Syn"
  /\ v.episodes = 24 /\ v.ep_count = 24 /\ v.special_count = 0
  /\ v.tag_id_list = "1,2" /\ v.tag_weigth_list = "0.5,0.8"

\* AUTH was answered `200 abc123` and the by-name query a 230 with payload
InScenario(payload) ==
  /\ sync_op = "query" /\ sync_pc = "idle"
  /\ sync_key0 = "abc123"
  /\ sync_replies = <<Reply(<<"230", "ANIME">>, <<payload>>)>>

\* C19 as stated: with the 14-position payload of the scenario the query
\* returns the scenario's record.
C19_ScenarioAsDocumented ==
  InScenario(Short14) => (sync_out.kind = "return" /\ ScenarioRecord(sync_out.val))

\* C19 amended: with the 15-position payload (one more title position before
\* the synonyms) the query returns the scenario's record; with the
\* 14-position payload of the scenario it raises the decode exception.
C19_ScenarioFifteenPositions ==
  /\ InScenario(Full15)
       => (sync_out.kind = "return" /\ ScenarioRecord(sync_out.val))
  /\ InScenario(Short14) => sync_out.kind = "raise"

C19_Witness ==
  InScenario(Full15) /\ sync_out.kind = "return" /\ sync_out.val.aid = 5

\* C12: two consecutive commands of one client are sent at least 2 time
\* units apart.
C12_MinimumSpacing == sync_gap = -1 \/ sync_gap >= 2

\* C13: every wait for a reply ends.
C13_EveryWaitEnds == SyncWaiting ~> ~SyncWaiting

\* a payload decoder was applied to the 15-position payload and to the same
\* payload changed in one position
DecodedPair ==
  /\ codec_fn \in {"process_response", "_process_anime_response"}
  /\ codec_in = Reply(<<"230", "ANIME">>, <<Full15>>)

\* the positions decoded with int(): aid, episodes, ep_count, special_count
IntPositions == {0, 8, 9, 10}

IntField(v, i) ==
  CASE i = 0 -> v.aid [] i = 8 -> v.episodes [] i = 9 -> v.ep_count
    [] OTHER -> v.special_count

\* C17: when one numeric position of a 15-position payload is not an
\* integer, the record is returned with 0 in that field.
C17_NumericTolerant ==
  (DecodedPair /\ codec_pos \in IntPositions
     /\ P(codec_in2.body[1], codec_pos) \notin IntStrings)
  => /\ codec_out2.kind = "return"
     /\ IntField(codec_out2.val, codec_pos) = 0

\* C18: changing position 3 or 12 of the payload leaves the decoded record
\* as it was, changing any other position changes it.
C18_PositionsRead ==
  DecodedPair =>
    ((codec_pos \in {3, 12}) <=> (codec_out2 = codec_out))

\* C20: two different failure codes of an AUTH reply never give the same
\* result.
C20_DistinctAuthErrors ==
  ( /\ codec_fn \in {"authenticate", "_handle_auth_response"}
    /\ CodeOf(codec_in) \in AuthFailureCodes
    /\ CodeOf(codec_in2) \in AuthFailureCodes
    /\ CodeOf(codec_in) # CodeOf(codec_in2) )
  => codec_auth # codec_auth2

\* C11: a worker that has finished after it read its settings made exactly
\* max_retries attempts and reported RetriesExhausted.
C11_RetriesExhausted ==
  \A t \in Threads :
    (w_pc[t] = "done" /\ w_max_retries[t] > 0)
    => (w_attempts[t] = w_max_retries[t] /\ w_error[t] = "RetriesExhausted")

ClosedAgain ==
  /\ sync_op = "close"
  /\ sync_pc = "idle"
  /\ sync_replies = <<>>
  /\ client = "closed"

\* C21: close() on a client whose channel is already released sends
\* nothing, changes nothing and raises no error.
C21_CloseIdempotent ==
  ClosedAgain =>
    /\ sync_sent = <<>>
    /\ sync_auth = sync_auth0
    /\ session_key = sync_key0
    /\ sync_out.kind # "raise"

\* C22: a client constructed with missing or empty credentials does not
\* exist afterwards, the construction has raised, no transport was opened
\* and no AUTH was sent.
C22_ConstructionValidates ==
  /\ (async_op = "init" /\ InvalidCredentials(credentials))
       => (~async_obj /\ async_out.kind = "raise" /\ session = "None")
  /\ (sync_op = "init" /\ username = "None")
       => (~sync_obj /\ client # "open" /\ Count(sync_sent, "AUTH") = 0)

\* the ids of an id string: its pieces without surrounding blanks, the empty
\* ones left out
IdsOf(pieces) ==
  SelectSeq([i \in DOMAIN pieces |-> strip(pieces[i])], NonEmpty)

\* C23: the list returned has one entry per id of the input, in input
\* order, and the entry of an id that is not in the table is "".
C23_NamesMatchIds ==
  tag_fn # "none" =>
    /\ Len(tag_out) = Len(IdsOf(tag_in))
    /\ \A i \in 1..Len(IdsOf(tag_in)) :
         i <= Len(tag_out) => tag_out[i] = NameOf(IdsOf(tag_in)[i])

\* at most one row per aid
OneRowPerAid == \A r1, r2 \in db_rows : r1.aid = r2.aid => r1 = r2

\* C24: the table never holds two rows with one aid; after a successful
\* add_anime the row of its aid is the one just given and the other rows are
\* as before; a failed add_anime returns None and leaves the table as it was.
C24_AddAnimeIsUpsert ==
  /\ OneRowPerAid
  /\ db_op = "add_anime" =>
       IF db_fault = "none"
       THEN /\ db_row \in db_rows
            /\ {r \in db_rows : r.aid # db_row.aid}
                 = {r \in db_prev : r.aid # db_row.aid}
       ELSE /\ db_ret.kind = "None"
            /\ db_rows = db_prev

\* clean_database was called with a list of paths and returned
CleanedWithList ==
  db_op = "clean_database" /\ db_fault = "none" /\ ~db_paths.none

\* C30 as stated: the rows left are the prior rows whose stored path is not
\* empty and is one of existing_paths.
C30_KeepsListedPaths ==
  CleanedWithList =>
    db_rows = {r \in db_prev : r.path # "" /\ r.path \in db_paths.paths}

\* C30: the rows left by clean_database(existing_paths) are the prior rows
\* whose stored path is not empty and resolves to the same path as one of
\* existing_paths; the count returned is the number of rows removed; without
\* a list no row is left; after a database error the table is as before.
C30_KeepsResolvedPaths ==
  db_op = "clean_database" =>
    IF db_fault # "none" THEN db_rows = db_prev
    ELSE /\ db_ret.count = Cardinality(db_prev \ db_rows)
         /\ db_rows \subseteq db_prev
         /\ IF db_paths.none THEN db_rows = {}
            ELSE db_rows =
                   {r \in db_prev : /\ r.path # ""
                                    /\ \E q \in db_paths.paths :
                                         resolve(q) = resolve(r.path)}

\* a cleanup that removed one row and kept another whose stored path is
\* spelled differently from the listed one
C30_Witness ==
  /\ CleanedWithList
  /\ db_ret.count = 1
  /\ \E r \in db_rows : r.path \notin db_paths.paths

\* C25: for a folder that is not in the database and whose aniinfo.json
\* passes the integrity check, process_existing_json upserts the contents
\* once, returns them and sends no query.
C25_ExistingJsonIsUpserted ==
  ( /\ psa_fn \in {"process_existing_json", "process_single_anime"}
    /\ ~psa_in.cancel /\ ~psa_in.in_db /\ psa_in.file /\ psa_in.json_ok )
  => /\ psa_out.ret = "anime_info"
     /\ psa_out.upserts = 1
     /\ psa_out.sent = 0

\* how often the run of thread t has emitted processing_finished
FinishedCount(t) == Count(w_emitted[t], "processing_finished")

\* C26: a run emits processing_finished at most once, a run that has
\* returned has emitted it exactly once, and it is the last signal of the
\* run, emitted with _is_running back to False.
C26_FinishedExactlyOnce ==
  \A t \in Threads :
    /\ FinishedCount(t) <= 1
    /\ w_pc[t] = "done" => FinishedCount(t) = 1
    /\ FinishedCount(t) = 1 =>
         /\ w_emitted[t][Len(w_emitted[t])] = "processing_finished"
         /\ ~w_is_running[t]

\* a run without settings has returned: error_occurred, then
\* processing_finished
C26_Witness ==
  \E t \in Threads :
    /\ w_pc[t] = "done"
    /\ w_error[t] = "ValueError"
    /\ w_emitted[t] = <<"error_occurred", "processing_finished">>

\* cancel() was called on thread t after run() had set _is_running and
\* before it set it back
CancelledRunning(t) == w_cancel_pc[t] \in {"check", "body", "finally"}

C28_OneWorkerAtATime ==
  \A t1, t2 \in Threads : (Alive(t1) /\ Alive(t2)) => t1 = t2

====
